---------------------------- MODULE Spec2Model ----------------------------
(***************************************************************************)
(* rovio::RovioHealthMonitor (include/rovio/HealthMonitor.hpp).            *)
(*                                                                         *)
(* Numbers.  Every real quantity is an integer count of 0.025, so 0.1 is   *)
(* 4, 0.3 is 12, 1.0 is 40, 5.0 is 200, 6.0 is 240 and 7.0 is 280.  The    *)
(* thresholds are C++ doubles and may take any value of this grid.  The    *)
(* values the code holds in a float (the samples, the median, BvB_norm,    *)
(* the retained median) are the even counts; ToFloat is the narrowing      *)
(* double -> float (round to nearest, ties to even).  A float is widened   *)
(* exactly when it is compared with a double threshold, and the            *)
(* difference of two floats of this grid is a float of it.                 *)
(*                                                                         *)
(* Counter.  num_subsequent_unhealthy_updates_ is an int; the runs         *)
(* explored are bounded in length, so it stays far from INT_MAX.           *)
(*                                                                         *)
(* Output.  The std::cout lines change no state and are left out.          *)
(*                                                                         *)
(* Observers.  calls is the log of the calls of shouldResetEstimator made  *)
(* on the monitor; returned is what the latest accessor call gave and      *)
(* after how many calls; first_monitor is the flag and the log of an       *)
(* earlier monitor object that was fed before this one was constructed.    *)
(*                                                                         *)
(* Poses.  Eigen::Vector3d and kindr::RotationQuaternionPD values are      *)
(* opaque: only copied and compared.  They are numbered; 0 is the value    *)
(* the constructor of RovioFailsafePose sets.                              *)
(***************************************************************************)
EXTENDS Integers, Sequences, FiniteSets

VARIABLES
  enabled_,
  velocity_to_consider_static_,
  max_subsequent_unhealthy_updates_,
  healthy_feature_pixel_cov_area_,
  healthy_feature_pixel_cov_area_increment_,
  unhealthy_feature_pixel_cov_area_,
  unhealthy_velocity_,
  last_safe_pose_,
  num_subsequent_unhealthy_updates_,
  calls,
  returned,
  first_monitor

params == <<enabled_, velocity_to_consider_static_,
            max_subsequent_unhealthy_updates_,
            healthy_feature_pixel_cov_area_,
            healthy_feature_pixel_cov_area_increment_,
            unhealthy_feature_pixel_cov_area_, unhealthy_velocity_>>

vars == <<params, last_safe_pose_, num_subsequent_unhealthy_updates_, calls,
          returned, first_monitor>>

----------------------------------------------------------------------------
(* Defaults of the constructor's initializer list.                         *)

default_velocity_to_consider_static == 4
default_max_subsequent_unhealthy_updates == 2
default_healthy_feature_pixel_cov_area == 40
default_healthy_feature_pixel_cov_area_increment == 12
default_unhealthy_feature_pixel_cov_area == 200
default_unhealthy_velocity == 240

Vector3dZero == 0
QuaternionIdentity == 0

(* A faulty RovioFailsafePose: the position is not set to zero and holds   *)
(* whatever the memory held.                                               *)
RovioFailsafePose_positionNotZeroed ==
  [failsafe_WrWB |-> 1,
   failsafe_qBW |-> QuaternionIdentity,
   feature_pixel_cov_area_median |-> 0]

(* RovioFailsafePose::RovioFailsafePose()                                  *)
RovioFailsafePose ==
  [failsafe_WrWB |-> Vector3dZero,
   failsafe_qBW |-> QuaternionIdentity,
   feature_pixel_cov_area_median |-> 0]

----------------------------------------------------------------------------
(* Arithmetic of shouldResetEstimator.                                     *)

Abs(x) == IF x < 0 THEN -x ELSE x

(* const float BvB_norm = <double>: the nearest even count, a count midway *)
(* between two floats going to the one whose half is even.                 *)
ToFloat(x) ==
  IF x % 2 = 0 THEN x
  ELSE IF (x + 1) % 4 = 0 THEN x + 1 ELSE x - 1

(* A faulty MiddleIndex: the lower of the two middle indices.              *)
MiddleIndex_lower(n) == (n - 1) \div 2

(* Line 87: middle_index = size / 2, an index counted from 0.              *)
MiddleIndex(n) == n \div 2

(* A faulty NthElement: index n is read without the selection.             *)
NthElement_noSelect(s, n) == s[n + 1]

(* std::nth_element(first, first + n, last) followed by the read of        *)
(* element n: the value that stands at index n (from 0) once the range is  *)
(* ordered, i.e. at most n elements are smaller and more than n are not    *)
(* greater.  The positions of the other elements are not read.             *)
NthElement(s, n) ==
  CHOOSE x \in {s[i] : i \in DOMAIN s} :
    /\ Cardinality({i \in DOMAIN s : s[i] < x}) <= n
    /\ Cardinality({i \in DOMAIN s : s[i] <= x}) > n

(* Lines 84-92: feature_pixel_cov_area_median.                             *)
Median(feature_pixel_cov_area_in) ==
  IF feature_pixel_cov_area_in = <<>>
  THEN 0
  ELSE NthElement(feature_pixel_cov_area_in,
                  MiddleIndex(Len(feature_pixel_cov_area_in)))

(* Faulty UnhealthyTests: >= for the static velocity, >= for the area,     *)
(* && in place of ||, and nothing unhealthy while the monitor is disabled. *)
UnhealthyTest_gated(BvB_norm, median) ==
  /\ enabled_
  /\ BvB_norm > velocity_to_consider_static_
  /\ \/ BvB_norm > unhealthy_velocity_
     \/ median > unhealthy_feature_pixel_cov_area_
UnhealthyTest_staticInclusive(BvB_norm, median) ==
  /\ BvB_norm >= velocity_to_consider_static_
  /\ \/ BvB_norm > unhealthy_velocity_
     \/ median > unhealthy_feature_pixel_cov_area_
UnhealthyTest_medianInclusive(BvB_norm, median) ==
  /\ BvB_norm > velocity_to_consider_static_
  /\ \/ BvB_norm > unhealthy_velocity_
     \/ median >= unhealthy_feature_pixel_cov_area_
UnhealthyTest_both(BvB_norm, median) ==
  /\ BvB_norm > velocity_to_consider_static_
  /\ BvB_norm > unhealthy_velocity_
  /\ median > unhealthy_feature_pixel_cov_area_

(* Lines 96-98: the condition of the if.                                   *)
UnhealthyTest(BvB_norm, median) ==
  /\ BvB_norm > velocity_to_consider_static_
  /\ \/ BvB_norm > unhealthy_velocity_
     \/ median > unhealthy_feature_pixel_cov_area_

(* Faulty UnhealthyBranches: true already at the limit, the counter set    *)
(* to zero when true is returned, the counter held at one above the limit, *)
(* and the retained pose reset.                                            *)
UnhealthyBranch_capped ==
  LET n == num_subsequent_unhealthy_updates_ + 1
  IN [num |-> IF n > max_subsequent_unhealthy_updates_ + 1
              THEN max_subsequent_unhealthy_updates_ + 1 ELSE n,
      pose |-> last_safe_pose_,
      ret |-> n > max_subsequent_unhealthy_updates_]
UnhealthyBranch_clearsPose ==
  LET n == num_subsequent_unhealthy_updates_ + 1
  IN [num |-> n, pose |-> RovioFailsafePose,
      ret |-> n > max_subsequent_unhealthy_updates_]
UnhealthyBranch_atLimit ==
  LET n == num_subsequent_unhealthy_updates_ + 1
  IN [num |-> n, pose |-> last_safe_pose_,
      ret |-> n >= max_subsequent_unhealthy_updates_]
UnhealthyBranch_rezero ==
  LET n == num_subsequent_unhealthy_updates_ + 1
  IN [num |-> IF n > max_subsequent_unhealthy_updates_ THEN 0 ELSE n,
      pose |-> last_safe_pose_,
      ret |-> n > max_subsequent_unhealthy_updates_]

(* Lines 99-112: the then-branch.  The counter is incremented; true is     *)
(* returned when it exceeds the limit, and the counter keeps its value.    *)
(* The retained pose is not touched.                                       *)
UnhealthyBranch ==
  LET n == num_subsequent_unhealthy_updates_ + 1
  IN [num |-> n, pose |-> last_safe_pose_,
      ret |-> n > max_subsequent_unhealthy_updates_]

(* Faulty RetainedPoses: no test of the healthy area, no test of the       *)
(* increment, the orientation not copied, and <= for the increment.        *)
RetainedPose_noAreaTest(median, WrWB, qBW) ==
  IF Abs(median - last_safe_pose_.feature_pixel_cov_area_median)
       < healthy_feature_pixel_cov_area_increment_
  THEN [failsafe_WrWB |-> WrWB, failsafe_qBW |-> qBW,
        feature_pixel_cov_area_median |-> median]
  ELSE last_safe_pose_
RetainedPose_noIncrementTest(median, WrWB, qBW) ==
  IF median < healthy_feature_pixel_cov_area_
  THEN [failsafe_WrWB |-> WrWB, failsafe_qBW |-> qBW,
        feature_pixel_cov_area_median |-> median]
  ELSE last_safe_pose_
RetainedPose_keepsOrientation(median, WrWB, qBW) ==
  IF /\ median < healthy_feature_pixel_cov_area_
     /\ Abs(median - last_safe_pose_.feature_pixel_cov_area_median)
          < healthy_feature_pixel_cov_area_increment_
  THEN [failsafe_WrWB |-> WrWB, failsafe_qBW |-> last_safe_pose_.failsafe_qBW,
        feature_pixel_cov_area_median |-> median]
  ELSE last_safe_pose_
RetainedPose_incrementInclusive(median, WrWB, qBW) ==
  IF /\ median < healthy_feature_pixel_cov_area_
     /\ Abs(median - last_safe_pose_.feature_pixel_cov_area_median)
          <= healthy_feature_pixel_cov_area_increment_
  THEN [failsafe_WrWB |-> WrWB, failsafe_qBW |-> qBW,
        feature_pixel_cov_area_median |-> median]
  ELSE last_safe_pose_

(* Lines 114-123: the retention of the snapshot as the failsafe pose.      *)
RetainedPose(median, WrWB, qBW) ==
  IF /\ median < healthy_feature_pixel_cov_area_
     /\ Abs(median - last_safe_pose_.feature_pixel_cov_area_median)
          < healthy_feature_pixel_cov_area_increment_
  THEN [failsafe_WrWB |-> WrWB, failsafe_qBW |-> qBW,
        feature_pixel_cov_area_median |-> median]
  ELSE last_safe_pose_

(* Faulty HealthyBranches: the counter is set to zero only when the        *)
(* retained pose changes, and the counter is not set to zero.              *)
HealthyBranch_resetOnlyOnNewPose(median, WrWB, qBW) ==
  [num |-> IF RetainedPose(median, WrWB, qBW) = last_safe_pose_
           THEN num_subsequent_unhealthy_updates_ ELSE 0,
   pose |-> RetainedPose(median, WrWB, qBW),
   ret |-> FALSE]
HealthyBranch_keepsCounter(median, WrWB, qBW) ==
  [num |-> num_subsequent_unhealthy_updates_,
   pose |-> RetainedPose(median, WrWB, qBW),
   ret |-> FALSE]

(* Lines 113-126: the else-branch and the final return false.              *)
HealthyBranch(median, WrWB, qBW) ==
  [num |-> 0,
   pose |-> RetainedPose(median, WrWB, qBW),
   ret |-> FALSE]

(* The sequence s in ascending order (insertion sort).                     *)
RECURSIVE Insert(_, _)
Insert(x, s) ==
  IF s = <<>> THEN <<x>>
  ELSE IF x <= Head(s) THEN <<x>> \o s
  ELSE <<Head(s)>> \o Insert(x, Tail(s))

RECURSIVE Sorted(_)
Sorted(s) == IF s = <<>> THEN <<>> ELSE Insert(Head(s), Sorted(Tail(s)))

(* A faulty CallerSamplesAfter: the selection runs on the caller's vector  *)
(* and leaves it reordered.                                                *)
CallerSamplesAfter_inPlace(feature_pixel_cov_area_in) ==
  Sorted(feature_pixel_cov_area_in)

(* Lines 82 and 85: the caller's vector is taken by const reference and    *)
(* copied; std::nth_element reorders the copy, and the caller's vector     *)
(* holds after the call what it held before.                               *)
CallerSamplesAfter(feature_pixel_cov_area_in) == feature_pixel_cov_area_in

----------------------------------------------------------------------------
(* bool shouldResetEstimator(feature_pixel_cov_area_in, imu_output).       *)
(* imu_output is read three times: BvB().norm() (norm, a double), WrWB()   *)
(* and qBW().  calls is the log of the calls made so far: what went in,    *)
(* the state before, the value returned and the state after.               *)

shouldResetEstimator(feature_pixel_cov_area_in, norm, WrWB, qBW) ==
  LET feature_pixel_cov_area_median == Median(feature_pixel_cov_area_in)
      BvB_norm == ToFloat(norm)
      out == IF UnhealthyTest(BvB_norm, feature_pixel_cov_area_median)
             THEN UnhealthyBranch
             ELSE HealthyBranch(feature_pixel_cov_area_median, WrWB, qBW)
  IN /\ num_subsequent_unhealthy_updates_' = out.num
     /\ last_safe_pose_' = out.pose
     /\ calls' = Append(calls,
          [feature_pixel_cov_area_in |-> feature_pixel_cov_area_in,
           norm |-> norm,
           BvB_norm |-> BvB_norm,
           feature_pixel_cov_area_median |-> feature_pixel_cov_area_median,
           WrWB |-> WrWB,
           qBW |-> qBW,
           num_before |-> num_subsequent_unhealthy_updates_,
           pose_before |-> last_safe_pose_,
           ret |-> out.ret,
           num_after |-> out.num,
           pose_after |-> out.pose,
           feature_pixel_cov_area_in_after |->
             CallerSamplesAfter(feature_pixel_cov_area_in)])
     /\ UNCHANGED <<params, returned, first_monitor>>

(* Line 79: bool enabled() const.                                          *)
enabled ==
  /\ returned' = [op |-> "enabled", value |-> enabled_, at |-> Len(calls)]
  /\ UNCHANGED <<params, last_safe_pose_, num_subsequent_unhealthy_updates_,
                 calls, first_monitor>>

(* A faulty failsafe_WrWB: the retained position is moved out and left     *)
(* zero.                                                                   *)
failsafe_WrWB_movesOut ==
  /\ returned' = [op |-> "failsafe_WrWB",
                  value |-> last_safe_pose_.failsafe_WrWB, at |-> Len(calls)]
  /\ last_safe_pose_' = [last_safe_pose_ EXCEPT !.failsafe_WrWB = Vector3dZero]
  /\ UNCHANGED <<params, num_subsequent_unhealthy_updates_, calls,
                 first_monitor>>

(* Line 129: Eigen::Vector3d failsafe_WrWB().                              *)
failsafe_WrWB ==
  /\ returned' = [op |-> "failsafe_WrWB",
                  value |-> last_safe_pose_.failsafe_WrWB, at |-> Len(calls)]
  /\ UNCHANGED <<params, last_safe_pose_, num_subsequent_unhealthy_updates_,
                 calls, first_monitor>>

(* Lines 131-133: kindr::RotationQuaternionPD failsafe_qBW().              *)
failsafe_qBW ==
  /\ returned' = [op |-> "failsafe_qBW",
                  value |-> last_safe_pose_.failsafe_qBW, at |-> Len(calls)]
  /\ UNCHANGED <<params, last_safe_pose_, num_subsequent_unhealthy_updates_,
                 calls, first_monitor>>

(* The state after RovioHealthMonitor(nh, nh_private): every parameter is  *)
(* its default unless the parameter server holds a value for it.           *)
Constructed(en, static, max, healthy, increment, unhealthy, velocity) ==
  /\ enabled_ = en
  /\ velocity_to_consider_static_ = static
  /\ max_subsequent_unhealthy_updates_ = max
  /\ healthy_feature_pixel_cov_area_ = healthy
  /\ healthy_feature_pixel_cov_area_increment_ = increment
  /\ unhealthy_feature_pixel_cov_area_ = unhealthy
  /\ unhealthy_velocity_ = velocity
  /\ last_safe_pose_ = RovioFailsafePose
  /\ num_subsequent_unhealthy_updates_ = 0
  /\ calls = <<>>
  /\ returned = [op |-> "none", value |-> 0, at |-> 0]
  /\ first_monitor = [enabled_ |-> en, calls |-> <<>>]

(* A second RovioHealthMonitor is constructed from the same parameter      *)
(* server, where health_monitor_enabled may have changed to en.  The flag  *)
(* and the log of the monitor fed so far are kept in first_monitor, and    *)
(* the observers now follow the new object.                                *)
Reconstruct(en) ==
  /\ first_monitor.calls = <<>>
  /\ calls # <<>>
  /\ first_monitor' = [enabled_ |-> enabled_, calls |-> calls]
  /\ enabled_' = en
  /\ last_safe_pose_' = RovioFailsafePose
  /\ num_subsequent_unhealthy_updates_' = 0
  /\ calls' = <<>>
  /\ returned' = [op |-> "none", value |-> 0, at |-> 0]
  /\ UNCHANGED <<velocity_to_consider_static_,
                 max_subsequent_unhealthy_updates_,
                 healthy_feature_pixel_cov_area_,
                 healthy_feature_pixel_cov_area_increment_,
                 unhealthy_feature_pixel_cov_area_, unhealthy_velocity_>>

----------------------------------------------------------------------------
(* Bounds of the exploration.                                              *)

MaxCalls == 2
MaxCallsStreak == 5
MaxCallsPose == 3
MaxK == 2
MaxLen == 4
MaxCallsAccess == 2
MaxCallsTwin == 2

(* All sequences over S of at most n elements.                             *)
SeqUpTo(S, n) == UNION {[1..m -> S] : m \in 0..n}

----------------------------------------------------------------------------
(* Spec: single cycles under varied thresholds.  The norms 3 and 241 are   *)
(* narrowed to 4 and 240, the default static and unhealthy velocities;     *)
(* the parameter server may also hold a negative or zero area limit and a  *)
(* velocity limit below the static velocity.                               *)

Init ==
  \E max \in 0..1, unhealthy \in {-2, 0, default_unhealthy_feature_pixel_cov_area},
     velocity \in {2, default_unhealthy_velocity} :
    Constructed(FALSE, default_velocity_to_consider_static, max,
                default_healthy_feature_pixel_cov_area,
                default_healthy_feature_pixel_cov_area_increment,
                unhealthy, velocity)

Next ==
  /\ Len(calls) < MaxCalls
  /\ \E feature_pixel_cov_area_in \in
          {<<>>, <<8>>, <<200>>, <<240, 8>>, <<8, 240, 200>>},
        norm \in {3, 120, 241, 280} :
       shouldResetEstimator(feature_pixel_cov_area_in, norm, 1, 1)

Spec == Init /\ [][Next]_vars

(* SpecStreak: long runs of cycles, for every limit from -1 (the first     *)
(* unhealthy cycle already exceeds it) to MaxK, default thresholds.        *)

InitStreak ==
  \E max \in (-1)..MaxK :
    Constructed(FALSE, default_velocity_to_consider_static, max,
                default_healthy_feature_pixel_cov_area,
                default_healthy_feature_pixel_cov_area_increment,
                default_unhealthy_feature_pixel_cov_area,
                default_unhealthy_velocity)

NextStreak ==
  /\ Len(calls) < MaxCallsStreak
  /\ \E feature_pixel_cov_area_in \in {<<>>, <<240>>},
        norm \in {3, 120, 280} :
       shouldResetEstimator(feature_pixel_cov_area_in, norm, 1, 1)

SpecStreak == InitStreak /\ [][NextStreak]_vars

(* SpecPose: the retention of the failsafe pose, under the default         *)
(* thresholds and under a healthy area limit of 0.2.                       *)

InitPose ==
  \E healthy \in {8, default_healthy_feature_pixel_cov_area} :
    Constructed(FALSE, default_velocity_to_consider_static,
                default_max_subsequent_unhealthy_updates,
                healthy,
                default_healthy_feature_pixel_cov_area_increment,
                default_unhealthy_feature_pixel_cov_area,
                default_unhealthy_velocity)

NextPose ==
  /\ Len(calls) < MaxCallsPose
  /\ \E feature_pixel_cov_area_in \in
          {<<>>, <<8>>, <<12>>, <<20>>, <<28>>, <<38>>},
        norm \in {3, 280}, snapshot \in {<<1, 1>>, <<2, 2>>} :
       shouldResetEstimator(feature_pixel_cov_area_in, norm,
                            snapshot[1], snapshot[2])

SpecPose == InitPose /\ [][NextPose]_vars

(* SpecMedian: one call on every sample collection of at most MaxLen       *)
(* values among 1.0, 2.0, 3.0 and 4.0; the median depends on nothing else. *)

InitMedian ==
  Constructed(FALSE, default_velocity_to_consider_static,
              default_max_subsequent_unhealthy_updates,
              default_healthy_feature_pixel_cov_area,
              default_healthy_feature_pixel_cov_area_increment,
              default_unhealthy_feature_pixel_cov_area,
              default_unhealthy_velocity)

NextMedian ==
  /\ calls = <<>>
  /\ \E feature_pixel_cov_area_in \in SeqUpTo({40, 80, 120, 160}, MaxLen) :
       shouldResetEstimator(feature_pixel_cov_area_in, 120, 1, 1)

SpecMedian == InitMedian /\ [][NextMedian]_vars

(* SpecAccess: a monitor is fed up to MaxCallsAccess cycles; then a second *)
(* monitor with the same parameters is fed the same cycles, with calls of  *)
(* the three accessors in between.                                         *)

InitAccess ==
  \E en \in BOOLEAN :
    Constructed(en, default_velocity_to_consider_static,
                default_max_subsequent_unhealthy_updates,
                default_healthy_feature_pixel_cov_area,
                default_healthy_feature_pixel_cov_area_increment,
                default_unhealthy_feature_pixel_cov_area,
                default_unhealthy_velocity)

NextAccess ==
  \/ /\ first_monitor.calls = <<>>
     /\ Len(calls) < MaxCallsAccess
     /\ \E feature_pixel_cov_area_in \in {<<>>, <<8>>, <<20>>, <<240>>},
           norm \in {3, 280}, snapshot \in {<<1, 1>>, <<2, 2>>} :
          shouldResetEstimator(feature_pixel_cov_area_in, norm,
                               snapshot[1], snapshot[2])
  \/ Reconstruct(enabled_)
  \/ /\ first_monitor.calls # <<>>
     /\ Len(calls) < Len(first_monitor.calls)
     /\ LET f == first_monitor.calls[Len(calls) + 1]
        IN shouldResetEstimator(f.feature_pixel_cov_area_in, f.norm,
                                f.WrWB, f.qBW)
  \/ first_monitor.calls # <<>> /\ enabled
  \/ first_monitor.calls # <<>> /\ failsafe_WrWB
  \/ first_monitor.calls # <<>> /\ failsafe_qBW

SpecAccess == InitAccess /\ [][NextAccess]_vars

(* SpecTwin: a monitor is fed up to MaxCallsTwin cycles; then a second     *)
(* monitor with the same thresholds and either value of the enabled flag   *)
(* is fed cycles of the same speeds, whose samples are a permutation of    *)
(* the first monitor's or have the same median, with any snapshot pose.    *)

InitTwin ==
  \E max \in 0..1 :
    Constructed(FALSE, default_velocity_to_consider_static, max,
                default_healthy_feature_pixel_cov_area,
                default_healthy_feature_pixel_cov_area_increment,
                default_unhealthy_feature_pixel_cov_area,
                default_unhealthy_velocity)

NextTwin ==
  \/ /\ first_monitor.calls = <<>>
     /\ Len(calls) < MaxCallsTwin
     /\ \E feature_pixel_cov_area_in \in {<<>>, <<8, 240>>, <<240, 8>>},
           norm \in {3, 120}, snapshot \in {<<0, 0>>, <<1, 1>>} :
          shouldResetEstimator(feature_pixel_cov_area_in, norm,
                               snapshot[1], snapshot[2])
  \/ \E en \in BOOLEAN : Reconstruct(en)
  \/ /\ first_monitor.calls # <<>>
     /\ Len(calls) < Len(first_monitor.calls)
     /\ \E feature_pixel_cov_area_in \in {<<>>, <<8, 240>>, <<240, 8>>},
           norm \in {3, 120}, snapshot \in {<<0, 0>>, <<1, 1>>} :
          LET f == first_monitor.calls[Len(calls) + 1] IN
          /\ ToFloat(norm) = f.BvB_norm
          /\ \/ Sorted(feature_pixel_cov_area_in)
                  = Sorted(f.feature_pixel_cov_area_in)
             \/ Median(feature_pixel_cov_area_in)
                  = f.feature_pixel_cov_area_median
          /\ shouldResetEstimator(feature_pixel_cov_area_in, norm,
                                  snapshot[1], snapshot[2])

SpecTwin == InitTwin /\ [][NextTwin]_vars

----------------------------------------------------------------------------
(* Vocabulary of the properties, over the log of calls.  speed is the      *)
(* value the code compares, BvB_norm; median is the value computed on      *)
(* lines 84-92.                                                            *)

Calls == 1..Len(calls)

(* A cycle is unhealthy: it moves faster than the static velocity and      *)
(* either moves faster than the unhealthy velocity or has a median above   *)
(* the unhealthy area.                                                     *)
UnhealthyCycle(c) ==
  /\ c.BvB_norm > velocity_to_consider_static_
  /\ \/ c.BvB_norm > unhealthy_velocity_
     \/ c.feature_pixel_cov_area_median > unhealthy_feature_pixel_cov_area_

HealthyCycle(c) == ~UnhealthyCycle(c)

(* Calls a..b are all unhealthy (all healthy).                             *)
AllUnhealthy(a, b) == \A j \in a..b : UnhealthyCycle(calls[j])
AllHealthy(a, b) == \A j \in a..b : HealthyCycle(calls[j])

(* Call a is the first of an unhealthy streak: the monitor was just        *)
(* constructed, or the call before it was healthy.                         *)
StreakStartsAt(a) == a = 1 \/ (a > 1 /\ HealthyCycle(calls[a - 1]))

(* The snapshot of a call as a failsafe pose.                              *)
Snapshot(c) ==
  [failsafe_WrWB |-> c.WrWB, failsafe_qBW |-> c.qBW,
   feature_pixel_cov_area_median |-> c.feature_pixel_cov_area_median]

----------------------------------------------------------------------------
(* C1.  With max_subsequent_unhealthy_updates_ = k >= 0, counted from the  *)
(* construction or from a healthy cycle, the first k consecutive unhealthy *)
(* cycles return false and the (k+1)-th returns true; true is returned     *)
(* only by a cycle that ends at least k+1 consecutive unhealthy cycles.    *)
(* With k = 2, unhealthy velocity 6.0, static velocity 0.1, three cycles   *)
(* of speed 7 and median 0 return false, false, true.                      *)
C1_ResetOnKPlusFirstUnhealthy ==
  LET k == max_subsequent_unhealthy_updates_ IN
  k >= 0 =>
    /\ \A i \in Calls :
         /\ calls[i].ret => (i >= k + 1 /\ AllUnhealthy(i - k, i))
         /\ \A a \in 1..i :
              (StreakStartsAt(a) /\ AllUnhealthy(a, i)) =>
                 /\ i - a + 1 <= k => ~calls[i].ret
                 /\ i - a + 1 = k + 1 => calls[i].ret
    /\ ( /\ k = 2
         /\ unhealthy_velocity_ = 240
         /\ velocity_to_consider_static_ = 4
         /\ Len(calls) >= 3
         /\ \A i \in 1..3 : /\ calls[i].BvB_norm = 280
                            /\ calls[i].feature_pixel_cov_area_median = 0 )
       => <<calls[1].ret, calls[2].ret, calls[3].ret>> = <<FALSE, FALSE, TRUE>>

(* Three cycles of speed 7 and median 0 have run under k = 2, and a later  *)
(* streak has started after a healthy cycle.                               *)
C1_Witness ==
  /\ max_subsequent_unhealthy_updates_ = 2
  /\ Len(calls) = 5
  /\ \A i \in 1..3 : /\ calls[i].BvB_norm = 280
                     /\ calls[i].feature_pixel_cov_area_median = 0
  /\ HealthyCycle(calls[4])
  /\ UnhealthyCycle(calls[5])

(* C2.  For k <= max_subsequent_unhealthy_updates_, k unhealthy cycles,    *)
(* one healthy cycle and k more unhealthy cycles never return true; the    *)
(* healthy cycle sets the counter to zero whatever it was.                 *)
C2_HealthyCycleResetsStreak ==
  /\ \A h \in Calls :
       HealthyCycle(calls[h]) =>
         /\ calls[h].num_after = 0
         /\ \A i \in h..Len(calls) :
              (AllUnhealthy(h + 1, i) /\ i - h <= max_subsequent_unhealthy_updates_)
                 => ~calls[i].ret
  /\ \A k \in 0..max_subsequent_unhealthy_updates_ :
       \A a \in Calls :
         ( /\ StreakStartsAt(a)
           /\ a + 2 * k <= Len(calls)
           /\ AllUnhealthy(a, a + k - 1)
           /\ HealthyCycle(calls[a + k])
           /\ AllUnhealthy(a + k + 1, a + 2 * k) )
         => \A i \in a..(a + 2 * k) : ~calls[i].ret

(* Two unhealthy cycles, a healthy one and two more unhealthy ones have    *)
(* run under the limit 2.                                                  *)
C2_Witness ==
  /\ max_subsequent_unhealthy_updates_ = 2
  /\ Len(calls) = 5
  /\ AllUnhealthy(1, 2)
  /\ HealthyCycle(calls[3])
  /\ calls[3].num_before = 2
  /\ AllUnhealthy(4, 5)

(* C3.  A call increments the counter exactly when speed > static          *)
(* velocity and (speed > unhealthy velocity or median > unhealthy area),   *)
(* all strict; every other call sets the counter to zero and returns       *)
(* false.                                                                  *)
C3_UnhealthyIffMovingAndFastOrUncertain ==
  \A i \in Calls :
    LET c == calls[i] IN
    IF /\ c.BvB_norm > velocity_to_consider_static_
       /\ \/ c.BvB_norm > unhealthy_velocity_
          \/ c.feature_pixel_cov_area_median > unhealthy_feature_pixel_cov_area_
    THEN c.num_after = c.num_before + 1
    ELSE c.num_after = 0 /\ ~c.ret

(* A cycle at exactly the unhealthy velocity and exactly the unhealthy     *)
(* area, after an unhealthy one, was treated as healthy.                   *)
C3_Witness ==
  /\ Len(calls) = 2
  /\ calls[1].num_after = 1
  /\ calls[2].BvB_norm = unhealthy_velocity_
  /\ calls[2].BvB_norm > velocity_to_consider_static_
  /\ calls[2].feature_pixel_cov_area_median = unhealthy_feature_pixel_cov_area_
  /\ calls[2].num_after = 0

(* C4.  A call that returns true leaves the counter incremented, and true  *)
(* is returned by every following unhealthy cycle up to the first healthy  *)
(* cycle, which returns false.                                             *)
C4_TrueRepeatsUntilHealthy ==
  \A i \in Calls :
    calls[i].ret =>
      /\ calls[i].num_after = calls[i].num_before + 1
      /\ calls[i].num_after > max_subsequent_unhealthy_updates_
      /\ \A j \in (i + 1)..Len(calls) :
           /\ AllUnhealthy(i + 1, j) => calls[j].ret
           /\ (AllUnhealthy(i + 1, j - 1) /\ HealthyCycle(calls[j]))
                => ~calls[j].ret

(* True was returned three times in a row, then a healthy cycle returned   *)
(* false.                                                                  *)
C4_Witness ==
  /\ Len(calls) = 5
  /\ \A i \in 2..4 : calls[i].ret
  /\ HealthyCycle(calls[5])
  /\ ~calls[5].ret

(* C5.  A healthy cycle overwrites the retained pose with the snapshot's   *)
(* position, orientation and median exactly when median < healthy area     *)
(* and |median - retained median| < healthy increment (both strict, the    *)
(* retained median being the one before the call); all three fields are    *)
(* replaced together, otherwise none changes.                              *)
C5_RetentionIffBelowAndClose ==
  \A i \in Calls :
    LET c == calls[i] IN
    HealthyCycle(c) =>
      IF /\ c.feature_pixel_cov_area_median < healthy_feature_pixel_cov_area_
         /\ Abs(c.feature_pixel_cov_area_median
                  - c.pose_before.feature_pixel_cov_area_median)
              < healthy_feature_pixel_cov_area_increment_
      THEN c.pose_after = Snapshot(c)
      ELSE c.pose_after = c.pose_before

(* A healthy cycle has replaced a pose retained by an earlier cycle with   *)
(* a snapshot that differs from it in all three fields, and a healthy      *)
(* cycle exactly one increment away from the retained median has not.      *)
C5_Witness ==
  /\ Len(calls) = 3
  /\ \A i \in 1..3 : HealthyCycle(calls[i])
  /\ calls[1].pose_after = Snapshot(calls[1])
  /\ calls[2].pose_after = Snapshot(calls[2])
  /\ calls[2].pose_after.failsafe_WrWB # calls[2].pose_before.failsafe_WrWB
  /\ calls[2].pose_after.failsafe_qBW # calls[2].pose_before.failsafe_qBW
  /\ calls[2].pose_after.feature_pixel_cov_area_median
       # calls[2].pose_before.feature_pixel_cov_area_median
  /\ Abs(calls[3].feature_pixel_cov_area_median
           - calls[3].pose_before.feature_pixel_cov_area_median)
       = healthy_feature_pixel_cov_area_increment_
  /\ calls[3].feature_pixel_cov_area_median < healthy_feature_pixel_cov_area_
  /\ calls[3].pose_after = calls[3].pose_before
  /\ calls[3].pose_after # Snapshot(calls[3])

(* Calls a..b are healthy cycles with strictly decreasing medians, all     *)
(* below the healthy area, consecutive ones less than the increment apart. *)
DecreasingHealthyRun(a, b) ==
  /\ AllHealthy(a, b)
  /\ \A j \in a..b :
       calls[j].feature_pixel_cov_area_median < healthy_feature_pixel_cov_area_
  /\ \A j \in a..(b - 1) :
       /\ calls[j + 1].feature_pixel_cov_area_median
            < calls[j].feature_pixel_cov_area_median
       /\ calls[j].feature_pixel_cov_area_median
            - calls[j + 1].feature_pixel_cov_area_median
            < healthy_feature_pixel_cov_area_increment_

(* C6 as stated.  After a sequence of healthy cycles with strictly         *)
(* decreasing medians below the healthy area and consecutive differences   *)
(* below the increment, the retained pose is the snapshot of the last      *)
(* cycle, whatever pose was retained before the sequence.  (Stated for     *)
(* sequences of at least two cycles.)                                      *)
C6_AsStated ==
  \A a \in Calls : \A b \in (a + 1)..Len(calls) :
    DecreasingHealthyRun(a, b) => calls[b].pose_after = Snapshot(calls[b])

(* C6, amended.  The same, provided the first median of the sequence is    *)
(* less than the increment away from the median retained before the        *)
(* sequence.                                                               *)
C6_RetainsLastOfDecreasingRun ==
  \A a \in Calls : \A b \in a..Len(calls) :
    ( /\ DecreasingHealthyRun(a, b)
      /\ Abs(calls[a].feature_pixel_cov_area_median
               - calls[a].pose_before.feature_pixel_cov_area_median)
           < healthy_feature_pixel_cov_area_increment_ )
    => calls[b].pose_after = Snapshot(calls[b])

(* A decreasing run of two healthy cycles, started from a pose retained    *)
(* by an earlier cycle, has ended with a snapshot that differs from the    *)
(* pose retained before the run.                                           *)
C6_Witness ==
  /\ Len(calls) = 3
  /\ calls[1].pose_after # RovioFailsafePose
  /\ DecreasingHealthyRun(2, 3)
  /\ Abs(calls[2].feature_pixel_cov_area_median
           - calls[2].pose_before.feature_pixel_cov_area_median)
       < healthy_feature_pixel_cov_area_increment_
  /\ Snapshot(calls[3]).failsafe_WrWB # calls[2].pose_before.failsafe_WrWB
  /\ last_safe_pose_ = Snapshot(calls[3])

(* C7.  A healthy cycle whose median is more than the increment away from  *)
(* the retained median leaves the retained pose unchanged; with healthy    *)
(* area 1.0, increment 0.3 and the initial retained median 0, healthy      *)
(* cycles of medians 0.5, 0.7, 0.95 leave the initial pose in place        *)
(* throughout.                                                             *)
C7_FarMedianKeepsRetainedPose ==
  /\ \A i \in Calls :
       LET c == calls[i] IN
       ( /\ HealthyCycle(c)
         /\ Abs(c.feature_pixel_cov_area_median
                  - c.pose_before.feature_pixel_cov_area_median)
              > healthy_feature_pixel_cov_area_increment_ )
       => c.pose_after = c.pose_before
  /\ ( /\ healthy_feature_pixel_cov_area_ = 40
       /\ healthy_feature_pixel_cov_area_increment_ = 12
       /\ Len(calls) >= 1
       /\ \A i \in Calls :
            /\ i <= 3
            /\ HealthyCycle(calls[i])
            /\ calls[i].feature_pixel_cov_area_median = <<20, 28, 38>>[i] )
     => /\ \A i \in Calls : calls[i].pose_after = RovioFailsafePose
        /\ last_safe_pose_ = RovioFailsafePose

(* Healthy cycles of medians 0.5, 0.7 and 0.95 have run from construction  *)
(* under healthy area 1.0 and increment 0.3, with snapshots that are not   *)
(* the initial pose.                                                       *)
C7_Witness ==
  /\ healthy_feature_pixel_cov_area_ = 40
  /\ healthy_feature_pixel_cov_area_increment_ = 12
  /\ Len(calls) = 3
  /\ \A i \in 1..3 :
       /\ HealthyCycle(calls[i])
       /\ calls[i].feature_pixel_cov_area_median = <<20, 28, 38>>[i]
       /\ Snapshot(calls[i]).failsafe_WrWB # Vector3dZero

(* C8.  A call whose speed is at most the static velocity returns false    *)
(* and leaves the counter at zero, whatever the median, the unhealthy      *)
(* velocity and the counter before.                                        *)
C8_StaticIsHealthy ==
  \A i \in Calls :
    calls[i].BvB_norm <= velocity_to_consider_static_
      => (~calls[i].ret /\ calls[i].num_after = 0)

(* A cycle at exactly the static velocity, faster than the unhealthy       *)
(* velocity, with a median above the unhealthy area and a counter that     *)
(* was not zero, has run.                                                  *)
C8_Witness ==
  /\ Len(calls) = 2
  /\ calls[2].BvB_norm = velocity_to_consider_static_
  /\ calls[2].BvB_norm > unhealthy_velocity_
  /\ calls[2].feature_pixel_cov_area_median > unhealthy_feature_pixel_cov_area_
  /\ calls[2].num_before > 0

(* C9.  An empty sample collection gives median 0; when the thresholds are *)
(* non-negative the cycle is then unhealthy exactly when speed > static    *)
(* velocity and speed > unhealthy velocity.                                *)
C9_EmptySamplesDecideBySpeed ==
  \A i \in Calls :
    LET c == calls[i] IN
    c.feature_pixel_cov_area_in = <<>> =>
      /\ c.feature_pixel_cov_area_median = 0
      /\ ( /\ velocity_to_consider_static_ >= 0
           /\ unhealthy_velocity_ >= 0
           /\ unhealthy_feature_pixel_cov_area_ >= 0
           /\ healthy_feature_pixel_cov_area_ >= 0
           /\ healthy_feature_pixel_cov_area_increment_ >= 0 )
         => IF /\ c.BvB_norm > velocity_to_consider_static_
               /\ c.BvB_norm > unhealthy_velocity_
            THEN c.num_after = c.num_before + 1
            ELSE c.num_after = 0 /\ ~c.ret

(* A moving cycle below the unhealthy velocity with no samples has run     *)
(* under an unhealthy area of zero, after an unhealthy cycle.              *)
C9_Witness ==
  /\ Len(calls) = 2
  /\ unhealthy_feature_pixel_cov_area_ = 0
  /\ calls[2].feature_pixel_cov_area_in = <<>>
  /\ calls[2].BvB_norm > velocity_to_consider_static_
  /\ calls[2].BvB_norm < unhealthy_velocity_
  /\ calls[2].num_before = 1
  /\ calls[2].num_after = 0

(* C10 as stated.  The median of a non-empty collection is the middle      *)
(* element of the sorted order, the lower-middle one for an even size:     *)
(* of n elements, element (n + 1) div 2 counted from 1; for 1, 2, 3, 4     *)
(* it is 2.                                                                *)
C10_AsStated ==
  \A i \in Calls :
    LET s == calls[i].feature_pixel_cov_area_in IN
    s # <<>> =>
      calls[i].feature_pixel_cov_area_median = Sorted(s)[(Len(s) + 1) \div 2]

(* C10, amended.  The median of a non-empty collection is the element at   *)
(* the single index size / 2 (from 0) of the sorted order: the middle      *)
(* element for an odd size and the upper-middle one for an even size; for  *)
(* 1, 2, 3, 4 it is 3.                                                     *)
C10_UpperMedian ==
  \A i \in Calls :
    LET s == calls[i].feature_pixel_cov_area_in IN
    s # <<>> =>
      /\ calls[i].feature_pixel_cov_area_median = Sorted(s)[Len(s) \div 2 + 1]
      /\ Sorted(s) = <<40, 80, 120, 160>>
           => calls[i].feature_pixel_cov_area_median = 120

(* The call ran on the values 1, 2, 3, 4 given out of order.               *)
C10_Witness ==
  /\ Len(calls) = 1
  /\ calls[1].feature_pixel_cov_area_in = <<160, 40, 120, 80>>
  /\ calls[1].feature_pixel_cov_area_median = 120

(* C11 as documented on line 81.  shouldResetEstimator returns true if     *)
(* the estimator is healthy, and false if it is unhealthy and a reset was  *)
(* triggered: a healthy cycle returns true, and a cycle that exceeds the   *)
(* limit of subsequent unhealthy updates returns false.                    *)
C11_AsDocumented ==
  \A i \in Calls :
    LET c == calls[i] IN
    /\ HealthyCycle(c) => c.ret
    /\ (UnhealthyCycle(c) /\ c.num_after > max_subsequent_unhealthy_updates_)
         => ~c.ret

(* A call qualifies for the retention of its snapshot: it is healthy, its  *)
(* median is below the healthy area and less than the increment away from  *)
(* the median retained before it.                                          *)
Retains(c) ==
  /\ HealthyCycle(c)
  /\ c.feature_pixel_cov_area_median < healthy_feature_pixel_cov_area_
  /\ Abs(c.feature_pixel_cov_area_median
           - c.pose_before.feature_pixel_cov_area_median)
       < healthy_feature_pixel_cov_area_increment_

(* C12.  At construction the retained pose is the zero position, the       *)
(* identity orientation and median 0, and the counter is 0; failsafe_WrWB  *)
(* and failsafe_qBW return these values as long as no cycle has qualified  *)
(* for retention.                                                          *)
C12_InitialPoseUntilFirstRetention ==
  /\ calls = <<>> => num_subsequent_unhealthy_updates_ = 0
  /\ (\A i \in Calls : ~Retains(calls[i])) =>
       last_safe_pose_ = [failsafe_WrWB |-> Vector3dZero,
                          failsafe_qBW |-> QuaternionIdentity,
                          feature_pixel_cov_area_median |-> 0]
  /\ (returned.op = "failsafe_WrWB"
        /\ \A i \in 1..returned.at : ~Retains(calls[i]))
       => returned.value = Vector3dZero
  /\ (returned.op = "failsafe_qBW"
        /\ \A i \in 1..returned.at : ~Retains(calls[i]))
       => returned.value = QuaternionIdentity

(* failsafe_qBW was called after a first cycle that did not qualify and    *)
(* whose snapshot was not the initial pose; the second cycle qualified.    *)
C12_Witness ==
  /\ Len(calls) = 2
  /\ returned.op = "failsafe_qBW"
  /\ returned.at = 1
  /\ ~Retains(calls[1])
  /\ calls[1].qBW # QuaternionIdentity
  /\ Retains(calls[2])
  /\ last_safe_pose_.failsafe_qBW # QuaternionIdentity

(* C13.  Calls of enabled, failsafe_WrWB and failsafe_qBW between the      *)
(* cycles change nothing: the monitor that is also queried holds after     *)
(* every cycle the counter and the retained pose, and has returned from    *)
(* every cycle the value, of the monitor that was fed the same cycles and  *)
(* never queried.                                                          *)
C13_AccessorsChangeNothing ==
  first_monitor.calls # <<>> =>
    /\ \A i \in Calls :
         /\ calls[i].ret = first_monitor.calls[i].ret
         /\ calls[i].num_before = first_monitor.calls[i].num_before
         /\ calls[i].pose_before = first_monitor.calls[i].pose_before
         /\ calls[i].num_after = first_monitor.calls[i].num_after
         /\ calls[i].pose_after = first_monitor.calls[i].pose_after
    /\ num_subsequent_unhealthy_updates_ =
         IF calls = <<>> THEN 0
         ELSE first_monitor.calls[Len(calls)].num_after
    /\ last_safe_pose_ =
         IF calls = <<>> THEN RovioFailsafePose
         ELSE first_monitor.calls[Len(calls)].pose_after
    /\ enabled_ = first_monitor.enabled_

(* The second monitor retained a pose in its first cycle, was asked for    *)
(* failsafe_WrWB, and has run its second cycle.                            *)
C13_Witness ==
  /\ first_monitor.calls # <<>>
  /\ Len(calls) = 2
  /\ returned.op = "failsafe_WrWB"
  /\ returned.at = 1
  /\ returned.value # Vector3dZero
  /\ Retains(calls[2]) = FALSE
  /\ calls[2].pose_before.failsafe_WrWB # Vector3dZero

(* The last healthy call among the first n calls, 0 when there is none.    *)
LastHealthy(n) ==
  LET H == {i \in 1..n : HealthyCycle(calls[i])}
  IN IF H = {} THEN 0 ELSE CHOOSE i \in H : \A j \in H : j <= i

(* C14.  The counter is never negative and is the number of consecutive    *)
(* unhealthy cycles since the most recent healthy cycle, or since          *)
(* construction; a call changes it by +1 (unhealthy) or sets it to 0       *)
(* (healthy), and nothing else changes it.                                 *)
C14_CounterIsUnhealthyRunLength ==
  /\ num_subsequent_unhealthy_updates_ >= 0
  /\ num_subsequent_unhealthy_updates_ = Len(calls) - LastHealthy(Len(calls))
  /\ \A i \in Calls :
       /\ calls[i].num_before = (i - 1) - LastHealthy(i - 1)
       /\ calls[i].num_after = i - LastHealthy(i)
       /\ \/ UnhealthyCycle(calls[i])
             /\ calls[i].num_after = calls[i].num_before + 1
          \/ HealthyCycle(calls[i]) /\ calls[i].num_after = 0

(* After a healthy cycle, four unhealthy cycles have run under the limit   *)
(* 1 and the counter is 4.                                                 *)
C14_Witness ==
  /\ max_subsequent_unhealthy_updates_ = 1
  /\ Len(calls) = 5
  /\ HealthyCycle(calls[1])
  /\ AllUnhealthy(2, 5)
  /\ num_subsequent_unhealthy_updates_ = 4

(* C15.  An unhealthy cycle leaves the retained pose as it was, whatever   *)
(* it returns, also when its median is below the healthy area and less     *)
(* than the increment away from the retained median.                       *)
C15_UnhealthyKeepsRetainedPose ==
  \A i \in Calls :
    UnhealthyCycle(calls[i]) => calls[i].pose_after = calls[i].pose_before

(* After a cycle that retained its snapshot, two cycles that are unhealthy *)
(* by their speed alone, with a median that would qualify and another      *)
(* snapshot, have run.                                                     *)
C15_Witness ==
  /\ Len(calls) = 3
  /\ Retains(calls[1])
  /\ \A i \in 2..3 :
       /\ UnhealthyCycle(calls[i])
       /\ calls[i].feature_pixel_cov_area_median
            <= unhealthy_feature_pixel_cov_area_
       /\ calls[i].feature_pixel_cov_area_median
            < healthy_feature_pixel_cov_area_
       /\ Abs(calls[i].feature_pixel_cov_area_median
                - calls[i].pose_before.feature_pixel_cov_area_median)
            < healthy_feature_pixel_cov_area_increment_
       /\ calls[i].WrWB # calls[i].pose_before.failsafe_WrWB
  /\ last_safe_pose_ = Snapshot(calls[1])

(* The last call among the first n that qualified for retention, 0 when    *)
(* there is none.                                                          *)
LastRetaining(n) ==
  LET R == {i \in 1..n : Retains(calls[i])}
  IN IF R = {} THEN 0 ELSE CHOOSE i \in R : \A j \in R : j <= i

(* C16.  The retained pose is the initial pose (zero, identity, median 0)  *)
(* or the snapshot of the most recent cycle that satisfied the retention   *)
(* condition, a healthy one; when it is not the initial pose its median    *)
(* is below the healthy area, and every overwrite moves the retained       *)
(* median by less than the increment.                                      *)
C16_RetainedPoseIsLastQualifyingSnapshot ==
  /\ last_safe_pose_ =
       IF LastRetaining(Len(calls)) = 0
       THEN [failsafe_WrWB |-> Vector3dZero,
             failsafe_qBW |-> QuaternionIdentity,
             feature_pixel_cov_area_median |-> 0]
       ELSE Snapshot(calls[LastRetaining(Len(calls))])
  /\ LastRetaining(Len(calls)) # 0
       => HealthyCycle(calls[LastRetaining(Len(calls))])
  /\ last_safe_pose_ # [failsafe_WrWB |-> Vector3dZero,
                        failsafe_qBW |-> QuaternionIdentity,
                        feature_pixel_cov_area_median |-> 0]
       => last_safe_pose_.feature_pixel_cov_area_median
            < healthy_feature_pixel_cov_area_
  /\ \A i \in Calls :
       calls[i].pose_after # calls[i].pose_before
         => Abs(calls[i].pose_after.feature_pixel_cov_area_median
                  - calls[i].pose_before.feature_pixel_cov_area_median)
              < healthy_feature_pixel_cov_area_increment_

(* Two cycles have retained their snapshots, and a third, healthy, with    *)
(* another snapshot, has not: the pose of the second is retained.          *)
C16_Witness ==
  /\ Len(calls) = 3
  /\ Retains(calls[1])
  /\ Retains(calls[2])
  /\ Snapshot(calls[2]) # Snapshot(calls[1])
  /\ HealthyCycle(calls[3])
  /\ ~Retains(calls[3])
  /\ Snapshot(calls[3]).failsafe_WrWB # Snapshot(calls[2]).failsafe_WrWB
  /\ last_safe_pose_ = Snapshot(calls[2])

(* The first i calls of this monitor had the inputs of the first i calls   *)
(* of the first monitor.                                                   *)
SameInputsUpTo(i) ==
  \A j \in 1..i :
    /\ calls[j].feature_pixel_cov_area_in
         = first_monitor.calls[j].feature_pixel_cov_area_in
    /\ calls[j].norm = first_monitor.calls[j].norm
    /\ calls[j].WrWB = first_monitor.calls[j].WrWB
    /\ calls[j].qBW = first_monitor.calls[j].qBW

(* C17.  Two monitors that differ only in enabled and are fed the same     *)
(* cycles return the same values and hold the same counter and the same    *)
(* retained pose after every call; the flag gates nothing, and a disabled  *)
(* monitor counts and returns true.                                        *)
C17_EnabledDoesNotGate ==
  (first_monitor.calls # <<>> /\ enabled_ # first_monitor.enabled_) =>
    \A i \in Calls :
      SameInputsUpTo(i) =>
        /\ calls[i].ret = first_monitor.calls[i].ret
        /\ calls[i].num_after = first_monitor.calls[i].num_after
        /\ calls[i].pose_after = first_monitor.calls[i].pose_after

(* An enabled monitor has been fed the two cycles of a disabled one, and   *)
(* the disabled one had counted to 2 and returned true.                    *)
C17_Witness ==
  /\ ~first_monitor.enabled_
  /\ enabled_
  /\ Len(calls) = 2
  /\ SameInputsUpTo(2)
  /\ first_monitor.calls[2].ret
  /\ first_monitor.calls[2].num_after = 2

(* The first i calls of this monitor had the speeds and the medians of     *)
(* the first i calls of the first monitor.                                 *)
SameSpeedsAndMediansUpTo(i) ==
  \A j \in 1..i :
    /\ calls[j].BvB_norm = first_monitor.calls[j].BvB_norm
    /\ calls[j].feature_pixel_cov_area_median
         = first_monitor.calls[j].feature_pixel_cov_area_median

(* C18.  Two runs under the same thresholds with the same speed and        *)
(* median in every cycle return the same value from every call and hold    *)
(* the same counter after it, whatever the snapshot poses and the          *)
(* retained poses of the two runs.                                         *)
C18_DecisionDependsOnSpeedAndMedianOnly ==
  first_monitor.calls # <<>> =>
    \A i \in Calls :
      SameSpeedsAndMediansUpTo(i) =>
        /\ calls[i].ret = first_monitor.calls[i].ret
        /\ calls[i].num_after = first_monitor.calls[i].num_after

(* Two runs of two cycles with the same speeds and medians, where the      *)
(* snapshots of the second cycle differ and the poses retained before and  *)
(* after it differ, after an unhealthy first cycle.                        *)
C18_Witness ==
  /\ first_monitor.calls # <<>>
  /\ Len(calls) = 2
  /\ SameSpeedsAndMediansUpTo(2)
  /\ UnhealthyCycle(calls[1])
  /\ calls[2].WrWB # first_monitor.calls[2].WrWB
  /\ calls[2].pose_after # first_monitor.calls[2].pose_after
  /\ calls[1].feature_pixel_cov_area_in
       # first_monitor.calls[1].feature_pixel_cov_area_in

(* C19.  A call on a permutation of the samples, from the same state and   *)
(* with the same snapshot, returns the same value and leaves the same      *)
(* counter and retained pose; and the caller's collection holds after      *)
(* every call what it held before.                                         *)
C19_SampleOrderIrrelevant ==
  /\ first_monitor.calls # <<>> =>
       \A i \in Calls :
         LET c == calls[i]
             f == first_monitor.calls[i]
         IN ( /\ Sorted(c.feature_pixel_cov_area_in)
                   = Sorted(f.feature_pixel_cov_area_in)
              /\ c.norm = f.norm /\ c.WrWB = f.WrWB /\ c.qBW = f.qBW
              /\ c.num_before = f.num_before
              /\ c.pose_before = f.pose_before )
            => /\ c.ret = f.ret
               /\ c.num_after = f.num_after
               /\ c.pose_after = f.pose_after
               /\ c.feature_pixel_cov_area_median
                    = f.feature_pixel_cov_area_median
  /\ \A i \in Calls :
       calls[i].feature_pixel_cov_area_in_after
         = calls[i].feature_pixel_cov_area_in

(* A moving cycle has run on 0.2, 6.0 and, on the other monitor, from the  *)
(* same state, on 6.0, 0.2; the samples given were not in ascending order. *)
C19_Witness ==
  /\ first_monitor.calls # <<>>
  /\ Len(calls) = 2
  /\ calls[2].feature_pixel_cov_area_in = <<240, 8>>
  /\ first_monitor.calls[2].feature_pixel_cov_area_in = <<8, 240>>
  /\ calls[2].BvB_norm > velocity_to_consider_static_
  /\ calls[2].num_before = first_monitor.calls[2].num_before
  /\ calls[2].pose_before = first_monitor.calls[2].pose_before
  /\ calls[2].WrWB = first_monitor.calls[2].WrWB
  /\ calls[2].num_before = 1
  /\ calls[2].ret

=============================================================================
